---- MODULE Spec2Model ----
(***************************************************************************)
(* A model of evaluate.py (spvnas): the evaluation driver that creates the *)
(* label directories, selects a model by name, runs the test split batch   *)
(* by batch, maps the voxel predictions back to the points of each scene   *)
(* and writes one .label file per scan.                                    *)
(*                                                                         *)
(* Strings are sequences of one-character strings, so that formatting,     *)
(* splitting, replacing, lower-casing and substring search are computed    *)
(* as the code computes them.  Files are sequences of bytes.               *)
(***************************************************************************)
EXTENDS Integers, Sequences, FiniteSets, TLC

(***************************************************************************)
(* Bounds of the model.                                                    *)
(***************************************************************************)
NumRanks == 2       \* processes of a distributed run
MaxScans == 4       \* scans of the test split
NumClasses == 3     \* classes of the model output (configs.data.num_classes)
MaxScenes == 2      \* scenes of one collated batch (remap specification)
MaxPts == 2         \* voxels, and points, of one scene (remap specification)
NumRuns == 2        \* invocations of the script in a row (setup specification)

(***************************************************************************)
(* Program constants.                                                      *)
(***************************************************************************)
NumDirs == 11       \* range(11)
InsShift == 16      \* ins << 16
TrainBatchSize == 2 \* configs.batch_size, the batch size of the train split
TestBatchSize == 1  \* batch_size ... else 1

VARIABLES
    world,      \* dist.size(): number of processes of the run
    name,       \* args.name
    nscans,     \* len(dataset['test'])
    net,        \* the restored network (its weights), as a parameter pair
    dirs,       \* file system: the directories that exist (path strings)
    files,      \* file system: path string -> bytes of the file
    pc,         \* per process: position in main()
    i,          \* per process: loop variable of the directory loop
    model,      \* per process: the model variant built
    indices,    \* per process: the scans its sampler yields, in order
    pos,        \* per process: number of batches taken from the dataflow
    feed,       \* per process: feed_dict, the batch being processed
    raw,        \* per process: outputs = model(inputs), one row per voxel
    outputs,    \* per process: outputs after the inverse mapping
    targets,    \* per process: targets after the inverse mapping
    err,        \* per process: the exception that ended it ("" if none)
    log,        \* per process: the trainer hooks and loop steps executed
    runs        \* invocations of the script started so far

vars == <<world, name, nscans, net, dirs, files, pc, i, model, indices, pos,
          feed, raw, outputs, targets, err, log, runs>>

(***************************************************************************)
(* Strings.                                                                *)
(***************************************************************************)
Digits == <<"0", "1", "2", "3", "4", "5", "6", "7", "8", "9">>

UpperAlpha == <<"A", "B", "C", "D", "E", "F", "G", "H", "I", "J", "K", "L", "M",
                "N", "O", "P", "Q", "R", "S", "T", "U", "V", "W", "X", "Y", "Z">>

LowerAlpha == <<"a", "b", "c", "d", "e", "f", "g", "h", "i", "j", "k", "l", "m",
                "n", "o", "p", "q", "r", "s", "t", "u", "v", "w", "x", "y", "z">>

LowerChar(c) ==
    IF \E k \in 1..Len(UpperAlpha) : UpperAlpha[k] = c
    THEN LowerAlpha[CHOOSE k \in 1..Len(UpperAlpha) : UpperAlpha[k] = c]
    ELSE c

\* str.lower()
Lower(s) == [k \in 1..Len(s) |-> LowerChar(s[k])]

\* sub in s
Contains(sub, s) ==
    \E k \in 1..(Len(s) - Len(sub) + 1) : SubSeq(s, k, k + Len(sub) - 1) = sub

RECURSIVE DecimalDigits(_)
DecimalDigits(k) ==
    IF k < 10 THEN <<Digits[k + 1]>> ELSE DecimalDigits(k \div 10) \o <<Digits[(k % 10) + 1]>>

\* f"{i:02d}"
Format02d(k) == IF k < 10 THEN <<"0">> \o DecimalDigits(k) ELSE DecimalDigits(k)

\* s.split(sep), sep a single character
RECURSIVE Split(_, _)
Split(s, sep) ==
    IF \E k \in 1..Len(s) : s[k] = sep
    THEN LET k == CHOOSE k \in 1..Len(s) : s[k] = sep /\ \A m \in 1..(k - 1) : s[m] # sep
         IN  <<SubSeq(s, 1, k - 1)>> \o Split(SubSeq(s, k + 1, Len(s)), sep)
    ELSE <<s>>

\* s.replace(old, new): every non-overlapping occurrence, left to right
RECURSIVE Replace(_, _, _)
Replace(s, old, new) ==
    IF Len(s) < Len(old) THEN s
    ELSE IF SubSeq(s, 1, Len(old)) = old
         THEN new \o Replace(SubSeq(s, Len(old) + 1, Len(s)), old, new)
         ELSE <<s[1]>> \o Replace(Tail(s), old, new)

\* seq[-k]
FromEnd(s, k) == s[Len(s) - k + 1]

Slash == <<"/">>
DotBin == <<".", "b", "i", "n">>
DotLabel == <<".", "l", "a", "b", "e", "l">>

(***************************************************************************)
(* 32-bit unsigned integers, kept as two 16-bit halves <<hi, lo>>, and the  *)
(* bytes of a file.                                                        *)
(***************************************************************************)
Half == 256 * 256

\* x.astype(np.uint32), x a non-negative integer
AsUint32(x) == <<(x \div Half) % Half, x % Half>>

\* a + b on uint32 (wraps)
Add32(a, b) ==
    LET lo == a[2] + b[2]
    IN  <<(a[1] + b[1] + (lo \div Half)) % Half, lo % Half>>

\* a << k on uint32 (bits shifted out are lost)
RECURSIVE Shl32(_, _)
Shl32(a, k) ==
    IF k = 0 THEN a
    ELSE Shl32(<<(2 * a[1] + (a[2] \div 32768)) % Half, (2 * a[2]) % Half>>, k - 1)

\* the four bytes of one uint32, little-endian
Bytes32(v) == <<v[2] % 256, v[2] \div 256, v[1] % 256, v[1] \div 256>>

\* ndarray.tofile: the raw bytes of the array, element after element
RECURSIVE ToBytes(_)
ToBytes(a) == IF a = <<>> THEN <<>> ELSE Bytes32(Head(a)) \o ToBytes(Tail(a))

(***************************************************************************)
(* The test split.  Scan k (from 0) is one .bin file of a sequence folder; *)
(* its item holds the voxels (one feature each), the inverse map (for each *)
(* point the voxel it fell into, counted from 0 within the scan) and the   *)
(* label of each point.                                                    *)
(***************************************************************************)
\* sequence and scan number of scan k; the sequences folder of the data set
\* holds sequences beyond 10 as well
ScanSeqNo == <<0, 0, 10, 11, 11, 12>>
ScanIdNo == <<0, 1, 0, 0, 1, 0>>

DataRoot == <<"/", "d">>
Velodyne == <<"v", "e", "l", "o", "d", "y", "n", "e">>
SaveDir == <<"o", "u", "t">>

\* the input path of scan k
FileName(k) ==
    DataRoot \o Slash \o Format02d(ScanSeqNo[k + 1]) \o Slash \o Velodyne
             \o Slash \o Format02d(ScanIdNo[k + 1]) \o DotBin

NumVoxels(k) == 1 + (k % 2)
NumPoints(k) == NumVoxels(k) + 1

\* the item of scan k
SceneOf(k) ==
    [feat |-> [v \in 1..NumVoxels(k) |-> k + v],
     inv  |-> [j \in 1..NumPoints(k) |-> (j + k) % NumVoxels(k)],
     lab  |-> [j \in 1..NumPoints(k) |-> (j + k) % NumClasses]]

\* DistributedSampler(dataset, num_replicas, rank, shuffle=False): the
\* indices 0..n-1, padded by repetition to a multiple of num_replicas, and
\* every num_replicas-th of them from position rank
SamplerIndices(n, num_replicas, rank) ==
    LET num_samples == (n + num_replicas - 1) \div num_replicas
    IN  [t \in 1..num_samples |-> (rank + (t - 1) * num_replicas) % n]

\* DataLoader(batch_size): the scans of the p-th batch (from 1)
BatchScans(idx, p) ==
    SubSeq(idx, (p - 1) * TestBatchSize + 1,
           IF p * TestBatchSize < Len(idx) THEN p * TestBatchSize ELSE Len(idx))

NumBatches(idx) == (Len(idx) + TestBatchSize - 1) \div TestBatchSize

RECURSIVE Repeat(_, _)
Repeat(x, k) == IF k = 0 THEN <<>> ELSE <<x>> \o Repeat(x, k - 1)

\* collate_fn: the items of a batch concatenated, every row tagged with the
\* index of its scene in the batch (the last column of C)
RECURSIVE Collate(_, _)
Collate(scenes, first) ==
    IF scenes = <<>>
    THEN [inputsB |-> <<>>, inputsF |-> <<>>, invB |-> <<>>, invF |-> <<>>,
          labB |-> <<>>, labF |-> <<>>]
    ELSE LET h == Head(scenes)
             r == Collate(Tail(scenes), first + 1)
         IN  [inputsB |-> Repeat(first, Len(h.feat)) \o r.inputsB,
              inputsF |-> h.feat \o r.inputsF,
              invB    |-> Repeat(first, Len(h.inv)) \o r.invB,
              invF    |-> h.inv \o r.invF,
              labB    |-> Repeat(first, Len(h.lab)) \o r.labB,
              labF    |-> h.lab \o r.labF]

\* feed_dict of the p-th batch of a process
FeedDict(idx, p) ==
    LET scans == BatchScans(idx, p)
        b == Collate([t \in 1..Len(scans) |-> SceneOf(scans[t])], 0)
    IN  [lidarC |-> b.inputsB, lidarF |-> b.inputsF,
         invC |-> b.invB, invF |-> b.invF, labC |-> b.labB, labF |-> b.labF,
         file_name |-> [t \in 1..Len(scans) |-> FileName(scans[t])]]

(***************************************************************************)
(* The network: one row of class scores per voxel.  A network is a pair    *)
(* <<shift, flat>>: the scores of a voxel are a rotation of 0..NumClasses-1 *)
(* by its feature plus shift, clipped to 0..1 when flat (so rows can tie). *)
(***************************************************************************)
Nets == (0..(NumClasses - 1)) \X BOOLEAN

NetRow(nt, f) ==
    [c \in 1..NumClasses |->
        LET v == (c + f + nt[1]) % NumClasses
        IN  IF nt[2] /\ v > 1 THEN 1 ELSE v]

\* outputs = model(inputs)
Forward(nt, feats) == [v \in 1..Len(feats) |-> NetRow(nt, feats[v])]

(***************************************************************************)
(* The inverse mapping of lines 126-140.                                   *)
(***************************************************************************)
\* x[mask] with mask = (keys == idx): the rows of x whose key is idx
RECURSIVE Masked(_, _, _)
Masked(x, keys, idx) ==
    IF x = <<>> THEN <<>>
    ELSE (IF Head(keys) = idx THEN <<Head(x)>> ELSE <<>>) \o Masked(Tail(x), Tail(keys), idx)

\* x[ind]: gather by 0-based indices
Gather(x, ind) == [j \in 1..Len(ind) |-> x[ind[j] + 1]]

\* row.argmax(): the first class of maximal score, from 0
Argmax(row) ==
    (CHOOSE c \in 1..Len(row) :
        /\ \A d \in 1..Len(row) : row[d] <= row[c]
        /\ \A d \in 1..(c - 1) : row[d] < row[c]) - 1

\* x.argmax(1)
ArgmaxRows(x) == [j \in 1..Len(x) |-> Argmax(x[j])]

\* x.max() of a non-empty sequence
SeqMax(x) == CHOOSE m \in {x[k] : k \in 1..Len(x)} : \A k \in 1..Len(x) : x[k] <= m

\* the inverse map applied to the rows of the whole batch
OutputsMappedWholeBatch(fd, out, idx) ==
    ArgmaxRows(Gather(out, Masked(fd.invF, fd.invC, idx)))

\* outputs_mapped of scene idx
OutputsMapped(fd, out, idx) ==
    LET cur_scene_pts == Masked(out, fd.lidarC, idx)
        cur_inv == Masked(fd.invF, fd.invC, idx)
    IN  ArgmaxRows(Gather(cur_scene_pts, cur_inv))

\* targets_mapped of scene idx
TargetsMapped(fd, idx) == Masked(fd.labF, fd.labC, idx)

\* torch.cat over the scenes idx..last
RECURSIVE CatOutputs(_, _, _, _)
CatOutputs(fd, out, idx, last) ==
    IF idx > last THEN <<>>
    ELSE OutputsMapped(fd, out, idx) \o CatOutputs(fd, out, idx + 1, last)

RECURSIVE CatTargets(_, _, _)
CatTargets(fd, idx, last) ==
    IF idx > last THEN <<>>
    ELSE TargetsMapped(fd, idx) \o CatTargets(fd, idx + 1, last)

\* the loop of lines 130-139
RemapOutputs(fd, out) == CatOutputs(fd, out, 0, SeqMax(fd.invC))
RemapTargets(fd) == CatTargets(fd, 0, SeqMax(fd.invC))

(***************************************************************************)
(* The label file of lines 143-148.                                        *)
(***************************************************************************)
\* the file name kept as it is, '.bin' not replaced
OutputFileNameKeepBin(file_name) ==
    LET abs_input_path == Split(file_name, "/")
    IN  SaveDir \o Slash \o FromEnd(abs_input_path, 3) \o Slash \o FromEnd(abs_input_path, 1)

\* output_file_name
OutputFileName(file_name) ==
    LET abs_input_path == Split(file_name, "/")
    IN  SaveDir \o Slash \o FromEnd(abs_input_path, 3) \o Slash
                \o Replace(FromEnd(abs_input_path, 1), DotBin, DotLabel)

\* sem
Sem(out) == [j \in 1..Len(out) |-> AsUint32(out[j])]

\* np.ones_like in place of np.zeros_like
InsOnes(sem) == [j \in 1..Len(sem) |-> AsUint32(1)]

\* ins = np.zeros_like(sem)
Ins(sem) == [j \in 1..Len(sem) |-> AsUint32(0)]

\* the two fields packed the other way round
PredEvalSwapped(sem, ins) == [j \in 1..Len(sem) |-> Add32(Shl32(sem[j], InsShift), ins[j])]

\* pred_eval = sem + (ins << 16)
PredEval(sem, ins) == [j \in 1..Len(sem) |-> Add32(sem[j], Shl32(ins[j], InsShift))]

\* the bytes tofile writes
LabelBytes(out) == ToBytes(PredEval(Sem(out), Ins(Sem(out))))

\* os.path.dirname
RECURSIVE DirName(_)
DirName(path) ==
    IF path = <<>> THEN <<>>
    ELSE IF path[Len(path)] = "/" THEN SubSeq(path, 1, Len(path) - 1)
    ELSE DirName(SubSeq(path, 1, Len(path) - 1))

(***************************************************************************)
(* The file system.                                                        *)
(***************************************************************************)
\* os.path.exists
PathExists(path) == path \in dirs \/ path \in DOMAIN files

\* what os.makedirs(path) leaves behind when it succeeds: the directory and
\* every missing ancestor
RECURSIVE MadeDirs(_)
MadeDirs(path) == IF DirName(path) = <<>> THEN {path} ELSE {path} \cup MadeDirs(DirName(path))

\* args.save_dir + "/" + directory_name
LabelDir(k) == SaveDir \o Slash \o Format02d(k)

AllLabelDirs == {LabelDir(k) : k \in 0..(NumDirs - 1)}

(***************************************************************************)
(* Model selection of lines 76-83.                                         *)
(***************************************************************************)
SPVNAS == <<"s", "p", "v", "n", "a", "s">>
SPVCNN == <<"s", "p", "v", "c", "n", "n">>
MINK == <<"m", "i", "n", "k">>
NoModel == <<>>

\* the chain without .lower()
SelectModelCaseSensitive(nm) ==
    IF Contains(SPVNAS, nm) THEN SPVNAS
    ELSE IF Contains(SPVCNN, nm) THEN SPVCNN
    ELSE IF Contains(MINK, nm) THEN MINK
    ELSE NoModel

\* the variant the if/elif chain builds; NoModel when it raises
SelectModel(nm) ==
    IF Contains(SPVNAS, Lower(nm)) THEN SPVNAS
    ELSE IF Contains(SPVCNN, Lower(nm)) THEN SPVCNN
    ELSE IF Contains(MINK, Lower(nm)) THEN MINK
    ELSE NoModel

\* values of --name
Names ==
    { <<"S", "P", "V", "N", "A", "S", "@", "6", "5">>,
      <<"s", "p", "v", "c", "n", "n">>,
      <<"M", "i", "n", "k", "U", "N", "e", "t">>,
      <<"S", "P", "V", "C", "N", "N", "-", "s", "p", "v", "n", "a", "s">>,
      <<"m", "i", "n", "k", "_", "S", "p", "v", "C", "n", "n">>,
      <<"s", "p", "v", "n", "a">>,
      <<"P", "V", "C", "N", "N">>,
      <<>> }

(***************************************************************************)
(* The processes.                                                          *)
(***************************************************************************)
Ranks == 0..(world - 1)

NoFeed == [lidarC |-> <<>>, lidarF |-> <<>>, invC |-> <<>>, invF |-> <<>>,
           labC |-> <<>>, labF |-> <<>>, file_name |-> <<>>]

Fail(w, e) ==
    /\ pc' = [pc EXCEPT ![w] = "failed"]
    /\ err' = [err EXCEPT ![w] = e]

Logged(w, e) == log' = [log EXCEPT ![w] = Append(@, e)]

\* line 40 left out: the directory is created without looking first
ExistsUnchecked(w) ==
    /\ pc[w] = "exists"
    /\ pc' = [pc EXCEPT ![w] = "makedirs"]
    /\ UNCHANGED <<world, name, nscans, net, dirs, files, i, model, indices, pos,
                   feed, raw, outputs, targets, err, log, runs>>

\* line 40: if not os.path.exists(...)
Exists(w) ==
    /\ pc[w] = "exists"
    /\ IF PathExists(LabelDir(i[w]))
       THEN /\ i' = [i EXCEPT ![w] = @ + 1]
            /\ pc' = [pc EXCEPT ![w] = IF i[w] + 1 < NumDirs THEN "exists" ELSE "dataflow"]
       ELSE /\ pc' = [pc EXCEPT ![w] = "makedirs"]
            /\ i' = i
    /\ UNCHANGED <<world, name, nscans, net, dirs, files, model, indices, pos,
                   feed, raw, outputs, targets, err, log, runs>>

\* line 41: os.makedirs(...), which raises when the directory exists
Makedirs(w) ==
    /\ pc[w] = "makedirs"
    /\ IF PathExists(LabelDir(i[w]))
       THEN /\ Fail(w, "FileExistsError")
            /\ UNCHANGED <<dirs, i>>
       ELSE /\ dirs' = dirs \cup MadeDirs(LabelDir(i[w]))
            /\ i' = [i EXCEPT ![w] = @ + 1]
            /\ pc' = [pc EXCEPT ![w] = IF i[w] + 1 < NumDirs THEN "exists" ELSE "dataflow"]
            /\ err' = err
    /\ UNCHANGED <<world, name, nscans, net, files, model, indices, pos,
                   feed, raw, outputs, targets, log, runs>>

\* lines 60-74: the sampler and the loader of the test split
Dataflow(w) ==
    /\ pc[w] = "dataflow"
    /\ indices' = [indices EXCEPT ![w] = SamplerIndices(nscans, world, w)]
    /\ pc' = [pc EXCEPT ![w] = "build"]
    /\ UNCHANGED <<world, name, nscans, net, dirs, files, i, model, pos,
                   feed, raw, outputs, targets, err, log, runs>>

\* lines 76-83
Build(w) ==
    /\ pc[w] = "build"
    /\ IF SelectModel(name) = NoModel
       THEN /\ Fail(w, "NotImplementedError")
            /\ model' = model
       ELSE /\ model' = [model EXCEPT ![w] = SelectModel(name)]
            /\ pc' = [pc EXCEPT ![w] = "before_train"]
            /\ err' = err
    /\ UNCHANGED <<world, name, nscans, net, dirs, files, i, indices, pos,
                   feed, raw, outputs, targets, log, runs>>

\* line 110
BeforeTrain(w) ==
    /\ pc[w] = "before_train"
    /\ Logged(w, <<"before_train", 0>>)
    /\ pc' = [pc EXCEPT ![w] = "before_epoch"]
    /\ UNCHANGED <<world, name, nscans, net, dirs, files, i, model, indices, pos,
                   feed, raw, outputs, targets, err, runs>>

\* line 111
BeforeEpoch(w) ==
    /\ pc[w] = "before_epoch"
    /\ Logged(w, <<"before_epoch", 0>>)
    /\ pc' = [pc EXCEPT ![w] = "loop"]
    /\ UNCHANGED <<world, name, nscans, net, dirs, files, i, model, indices, pos,
                   feed, raw, outputs, targets, err, runs>>

\* lines 115-124: the next batch and the forward pass
Infer(w) ==
    /\ pc[w] = "loop"
    /\ pos[w] < NumBatches(indices[w])
    /\ pos' = [pos EXCEPT ![w] = @ + 1]
    /\ feed' = [feed EXCEPT ![w] = FeedDict(indices[w], pos[w] + 1)]
    /\ raw' = [raw EXCEPT ![w] = Forward(net, feed'[w].lidarF)]
    /\ Logged(w, <<"infer", pos[w] + 1>>)
    /\ pc' = [pc EXCEPT ![w] = "remap"]
    /\ UNCHANGED <<world, name, nscans, net, dirs, files, i, model, indices,
                   outputs, targets, err, runs>>

\* lines 115-124 when loading or the forward pass raises: nothing catches it
InferFail(w) ==
    /\ pc[w] = "loop"
    /\ pos[w] < NumBatches(indices[w])
    /\ pos' = [pos EXCEPT ![w] = @ + 1]
    /\ Fail(w, "RuntimeError")
    /\ UNCHANGED <<world, name, nscans, net, dirs, files, i, model, indices,
                   feed, raw, outputs, targets, log, runs>>

\* lines 126-140
Remap(w) ==
    /\ pc[w] = "remap"
    /\ outputs' = [outputs EXCEPT ![w] = RemapOutputs(feed[w], raw[w])]
    /\ targets' = [targets EXCEPT ![w] = RemapTargets(feed[w])]
    /\ Logged(w, <<"remap", pos[w]>>)
    /\ pc' = [pc EXCEPT ![w] = "after_step"]
    /\ UNCHANGED <<world, name, nscans, net, dirs, files, i, model, indices, pos,
                   feed, raw, err, runs>>

\* line 141
AfterStep(w) ==
    /\ pc[w] = "after_step"
    /\ Logged(w, <<"after_step", pos[w]>>)
    /\ pc' = [pc EXCEPT ![w] = "write"]
    /\ UNCHANGED <<world, name, nscans, net, dirs, files, i, model, indices, pos,
                   feed, raw, outputs, targets, err, runs>>

\* lines 143-148: tofile creates or truncates the file, and raises when its
\* directory is missing
Write(w) ==
    /\ pc[w] = "write"
    /\ LET output_file_name == OutputFileName(feed[w].file_name[1])
       IN  IF DirName(output_file_name) \in dirs
           THEN /\ files' = [p \in DOMAIN files \cup {output_file_name} |->
                                IF p = output_file_name THEN LabelBytes(outputs[w])
                                ELSE files[p]]
                /\ Logged(w, <<"write", pos[w]>>)
                /\ pc' = [pc EXCEPT ![w] = "loop"]
                /\ err' = err
           ELSE /\ Fail(w, "FileNotFoundError")
                /\ UNCHANGED <<files, log>>
    /\ UNCHANGED <<world, name, nscans, net, dirs, i, model, indices, pos,
                   feed, raw, outputs, targets, runs>>

\* line 149 reached while batches are left
AfterEpochEarly(w) ==
    /\ pc[w] = "loop"
    /\ Logged(w, <<"after_epoch", 0>>)
    /\ pc' = [pc EXCEPT ![w] = "done"]
    /\ UNCHANGED <<world, name, nscans, net, dirs, files, i, model, indices, pos,
                   feed, raw, outputs, targets, err, runs>>

\* line 149, once the dataflow is exhausted
AfterEpoch(w) ==
    /\ pc[w] = "loop"
    /\ pos[w] = NumBatches(indices[w])
    /\ Logged(w, <<"after_epoch", 0>>)
    /\ pc' = [pc EXCEPT ![w] = "done"]
    /\ UNCHANGED <<world, name, nscans, net, dirs, files, i, model, indices, pos,
                   feed, raw, outputs, targets, err, runs>>

\* the script is started again after an invocation got through lines 38-41
Rerun(w) ==
    /\ pc[w] = "dataflow"
    /\ runs < NumRuns
    /\ runs' = runs + 1
    /\ pc' = [pc EXCEPT ![w] = "exists"]
    /\ i' = [i EXCEPT ![w] = 0]
    /\ UNCHANGED <<world, name, nscans, net, dirs, files, model, indices, pos,
                   feed, raw, outputs, targets, err, log>>

(***************************************************************************)
(* Specifications.                                                         *)
(***************************************************************************)
\* every process at the first line of main(), nothing computed yet
Started(size) ==
    /\ world = size
    /\ files = <<>>
    /\ pc = [w \in 0..(size - 1) |-> "exists"]
    /\ i = [w \in 0..(size - 1) |-> 0]
    /\ model = [w \in 0..(size - 1) |-> NoModel]
    /\ indices = [w \in 0..(size - 1) |-> <<>>]
    /\ pos = [w \in 0..(size - 1) |-> 0]
    /\ feed = [w \in 0..(size - 1) |-> NoFeed]
    /\ raw = [w \in 0..(size - 1) |-> <<>>]
    /\ outputs = [w \in 0..(size - 1) |-> <<>>]
    /\ targets = [w \in 0..(size - 1) |-> <<>>]
    /\ err = [w \in 0..(size - 1) |-> ""]
    /\ log = [w \in 0..(size - 1) |-> <<>>]
    /\ runs = 1

\* a run of one process: any model name, test split, network, and a save
\* directory that is missing or complete
Init ==
    /\ Started(1)
    /\ name \in Names
    /\ nscans \in 0..MaxScans
    /\ net \in Nets
    /\ dirs \in {{}, {SaveDir}, {SaveDir} \cup AllLabelDirs}

Next ==
    \/ \E w \in Ranks : Exists(w)
    \/ \E w \in Ranks : Makedirs(w)
    \/ \E w \in Ranks : Dataflow(w)
    \/ \E w \in Ranks : Build(w)
    \/ \E w \in Ranks : BeforeTrain(w)
    \/ \E w \in Ranks : BeforeEpoch(w)
    \/ \E w \in Ranks : Infer(w)
    \/ \E w \in Ranks : InferFail(w)
    \/ \E w \in Ranks : Remap(w)
    \/ \E w \in Ranks : AfterStep(w)
    \/ \E w \in Ranks : Write(w)
    \/ \E w \in Ranks : AfterEpoch(w)

Spec == Init /\ [][Next]_vars

\* a distributed run: NumRanks processes started on the same save directory
InitDist ==
    /\ Started(NumRanks)
    /\ name = <<"S", "P", "V", "N", "A", "S", "@", "6", "5">>
    /\ nscans \in 0..MaxScans
    /\ net = <<0, FALSE>>
    /\ dirs \in {{}, {SaveDir}}

SpecDist == InitDist /\ [][Next]_vars

\* the directory loop alone, run NumRuns times from any set of label
\* directories
InitSetup ==
    /\ Started(1)
    /\ name = <<>>
    /\ nscans = 0
    /\ net = <<0, FALSE>>
    /\ \E present \in SUBSET AllLabelDirs :
          dirs \in IF present = {} THEN {{}, {SaveDir}} ELSE {present \cup {SaveDir}}

NextSetup == Exists(0) \/ Makedirs(0) \/ Rerun(0)

SpecSetup == InitSetup /\ [][NextSetup]_vars

\* lines 126-140 alone, on any collated batch of up to MaxScenes scenes:
\* scene s has up to MaxPts voxels and up to MaxPts points, and any inverse
\* map from its points to its voxels
InverseMaps(nv) == UNION {[1..np -> 0..(nv - 1)] : np \in 1..MaxPts}

ScenesWith(s, nv) ==
    { [feat |-> [v \in 1..nv |-> s + v],
       inv  |-> iv,
       lab  |-> [j \in 1..Len(iv) |-> (s + j) % NumClasses]] : iv \in InverseMaps(nv) }

ScenesAt(s) == UNION {ScenesWith(s, nv) : nv \in 1..MaxPts}

RECURSIVE BatchesFrom(_, _)
BatchesFrom(s, last) ==
    IF s > last THEN {<<>>}
    ELSE {<<h>> \o t : h \in ScenesAt(s), t \in BatchesFrom(s + 1, last)}

BatchFeed(scenes) ==
    LET b == Collate(scenes, 0)
    IN  [lidarC |-> b.inputsB, lidarF |-> b.inputsF,
         invC |-> b.invB, invF |-> b.invF, labC |-> b.labB, labF |-> b.labF,
         file_name |-> [t \in 1..Len(scenes) |-> FileName(t - 1)]]

InitRemap ==
    /\ world = 1
    /\ name = <<"s", "p", "v", "c", "n", "n">>
    /\ nscans = 0
    /\ net \in {0} \X BOOLEAN
    /\ dirs = {SaveDir} \cup AllLabelDirs
    /\ files = <<>>
    /\ pc = [w \in {0} |-> "remap"]
    /\ i = [w \in {0} |-> NumDirs]
    /\ model = [w \in {0} |-> SPVCNN]
    /\ indices = [w \in {0} |-> <<>>]
    /\ pos = [w \in {0} |-> 1]
    /\ \E n \in 1..MaxScenes : \E scenes \in BatchesFrom(0, n - 1) :
          feed = [w \in {0} |-> BatchFeed(scenes)]
    /\ raw = [w \in {0} |-> Forward(net, feed[0].lidarF)]
    /\ outputs = [w \in {0} |-> <<>>]
    /\ targets = [w \in {0} |-> <<>>]
    /\ err = [w \in {0} |-> ""]
    /\ log = [w \in {0} |-> <<>>]
    /\ runs = 1

NextRemap == Remap(0)

SpecRemap == InitRemap /\ [][NextRemap]_vars

(***************************************************************************)
(* Properties.                                                             *)
(***************************************************************************)
\* reading a label file back: the k-th value, and the bit operations of the
\* label format
U32At(b, k) == <<b[4 * k - 1] + 256 * b[4 * k], b[4 * k - 3] + 256 * b[4 * k - 2]>>

\* a >> k on uint32
RECURSIVE Shr32(_, _)
Shr32(a, k) ==
    IF k = 0 THEN a
    ELSE Shr32(<<a[1] \div 2, (a[2] \div 2) + 32768 * (a[1] % 2)>>, k - 1)

RECURSIVE BitOr16(_, _)
BitOr16(a, b) ==
    IF a = 0 THEN b
    ELSE IF b = 0 THEN a
    ELSE (IF a % 2 = 1 \/ b % 2 = 1 THEN 1 ELSE 0) + 2 * BitOr16(a \div 2, b \div 2)

RECURSIVE BitAnd16(_, _)
BitAnd16(a, b) ==
    IF a = 0 \/ b = 0 THEN 0
    ELSE (IF a % 2 = 1 /\ b % 2 = 1 THEN 1 ELSE 0) + 2 * BitAnd16(a \div 2, b \div 2)

\* a | b and a & b on uint32
BitOr(a, b) == <<BitOr16(a[1], b[1]), BitOr16(a[2], b[2])>>
BitAnd(a, b) == <<BitAnd16(a[1], b[1]), BitAnd16(a[2], b[2])>>

\* <save_dir>/<two-digit-sequence>/<scan-id>.label of scan k
LabelPath(k) ==
    SaveDir \o Slash \o Format02d(ScanSeqNo[k + 1]) \o Slash
            \o Format02d(ScanIdNo[k + 1]) \o DotLabel

\* the class the network predicts for point j of scan k: the best class of
\* the voxel the point fell into
PredictedClass(k, j) ==
    LET sc == SceneOf(k)
        row == NetRow(net, sc.feat[sc.inv[j] + 1])
    IN  CHOOSE c \in 0..(NumClasses - 1) :
            /\ \A d \in 0..(NumClasses - 1) : row[d + 1] <= row[c + 1]
            /\ \A d \in 0..(c - 1) : row[d + 1] < row[c + 1]

Scans == 0..(nscans - 1)

Written == {k \in Scans : LabelPath(k) \in DOMAIN files}

\* C1: every 32-bit value of a written label file is
\* semantic_label | (instance_label << 16), with semantic_label the predicted
\* class of that point and instance_label 0.
C1_LabelValue ==
    \A k \in Written : \A j \in 1..Len(SceneOf(k).inv) :
        U32At(files[LabelPath(k)], j)
            = BitOr(AsUint32(PredictedClass(k, j)), Shl32(AsUint32(0), 16))

C1_Witness ==
    \E k \in Written : \E j \in 1..Len(SceneOf(k).inv) : PredictedClass(k, j) = NumClasses - 1

\* C2: the byte count of a written label file is 4 times the number of
\* points (inverse-map entries) of its own scan.
C2_ByteCount ==
    \A k \in Written : Len(files[LabelPath(k)]) = 4 * Len(SceneOf(k).inv)

C2_Witness ==
    \E k, m \in Written : Len(SceneOf(k).inv) # Len(SceneOf(m).inv)

\* the process has written the label file of its current batch and has not
\* taken the next batch yet
JustWrote(w) == pc[w] \in {"loop", "done"} /\ pos[w] > 0

LowMask == <<0, 65535>>

\* C3: decoding a stored value (semantic = value & 0xFFFF, instance =
\* value >> 16) gives back the predicted class and instance 0.
C3_RoundTrip ==
    \A w \in Ranks : JustWrote(w) =>
        LET b == files[OutputFileName(feed[w].file_name[1])]
        IN  /\ Len(b) = 4 * Len(outputs[w])
            /\ \A j \in 1..Len(outputs[w]) :
                  /\ BitAnd(U32At(b, j), LowMask) = <<0, outputs[w][j]>>
                  /\ Shr32(U32At(b, j), 16) = <<0, 0>>

C3_Witness ==
    \E w \in Ranks : JustWrote(w) /\ \E j \in 1..Len(outputs[w]) : outputs[w][j] = NumClasses - 1

AllDone == \A w \in Ranks : pc[w] = "done"

\* C4: when every process of the run has completed, each scan of the test
\* split has its label file at <save_dir>/<sequence>/<scan-id>.label, and
\* distinct scans have distinct files.
C4_FilePerScan ==
    AllDone =>
        /\ \A k \in Scans : LabelPath(k) \in DOMAIN files
        /\ Cardinality(DOMAIN files) = nscans

C4_Witness == AllDone /\ nscans = 3 /\ Cardinality(DOMAIN files) = 3

FullDirs == {SaveDir} \cup AllLabelDirs

\* an invocation has got through the directory loop
SetupEnded == pc[0] = "dataflow"

\* C5: from any subset of the eleven directories the directory loop ends
\* with all eleven present and no error, and a second run neither fails nor
\* changes the set of directories.
C5_SetupIdempotent ==
    /\ err[0] = ""
    /\ SetupEnded => dirs = FullDirs
    /\ runs >= 2 => dirs = FullDirs

C5_Witness == runs = 2 /\ SetupEnded

Recognised(nm, variant) == Contains(variant, Lower(nm))

ReachedBuild(w) ==
    /\ pc[w] \notin {"exists", "makedirs", "dataflow", "build"}
    /\ err[w] # "FileExistsError"

\* C6: the run fails with NotImplementedError exactly when the lower-cased
\* name contains none of spvnas, spvcnn, mink; then nothing is inferred and
\* no label file is written; otherwise exactly one variant is built, the
\* first of spvnas, spvcnn, mink the name contains.
C6_ModelByName ==
    \A w \in Ranks :
        /\ err[w] = "NotImplementedError" =>
              /\ \A v \in {SPVNAS, SPVCNN, MINK} : ~Recognised(name, v)
              /\ model[w] = NoModel
              /\ log[w] = <<>>
              /\ DOMAIN files = {}
        /\ ReachedBuild(w) /\ (\A v \in {SPVNAS, SPVCNN, MINK} : ~Recognised(name, v))
              => err[w] = "NotImplementedError"
        /\ ReachedBuild(w) /\ (\E v \in {SPVNAS, SPVCNN, MINK} : Recognised(name, v)) =>
              /\ err[w] # "NotImplementedError"
              /\ model[w] \in {SPVNAS, SPVCNN, MINK}
              /\ Recognised(name, model[w])
              /\ model[w] = SPVCNN => ~Recognised(name, SPVNAS)
              /\ model[w] = MINK => ~Recognised(name, SPVNAS) /\ ~Recognised(name, SPVCNN)

C6_Witness ==
    \E w \in Ranks : err[w] = "NotImplementedError" /\ Len(name) > 0 /\ nscans > 0

\* positions of event e in a log
At(lg, e) == {k \in 1..Len(lg) : lg[k] = e}

\* number of points of the scenes before scene s of a batch, and of the
\* points of scene s up to entry g
PointsBefore(fd, s) == Cardinality({h \in 1..Len(fd.invC) : fd.invC[h] < s})
PointsUpTo(fd, s, g) == Cardinality({h \in 1..g : fd.invC[h] = s})
LabelsUpTo(fd, s, g) == Cardinality({h \in 1..g : fd.labC[h] = s})
VoxelsUpTo(fd, s, r) == Cardinality({h \in 1..r : fd.lidarC[h] = s})

\* the row of the model output that belongs to voxel v (from 0) of scene s
RowOf(fd, s, v) ==
    CHOOSE r \in 1..Len(fd.lidarC) : fd.lidarC[r] = s /\ VoxelsUpTo(fd, s, r) = v + 1

BestClass(row) ==
    CHOOSE c \in 0..(Len(row) - 1) :
        /\ \A d \in 0..(Len(row) - 1) : row[d + 1] <= row[c + 1]
        /\ \A d \in 0..(c - 1) : row[d + 1] < row[c + 1]

\* C7: after the inverse mapping, the prediction of every point of every
\* scene is the best class of the output row of the voxel its inverse-map
\* entry names within its own scene; scenes follow each other in ascending
\* index; predictions and targets have one entry per point, in the same
\* order.
C7_InverseMapping ==
    pc[0] = "after_step" =>
        LET fd == feed[0]
        IN  /\ Len(outputs[0]) = Len(fd.invF)
            /\ Len(targets[0]) = Len(outputs[0])
            /\ \A g \in 1..Len(fd.invF) :
                  LET s == fd.invC[g]
                      at == PointsBefore(fd, s) + PointsUpTo(fd, s, g)
                  IN  outputs[0][at] = BestClass(raw[0][RowOf(fd, s, fd.invF[g])])
            /\ \A g \in 1..Len(fd.labF) :
                  LET s == fd.labC[g]
                      at == PointsBefore(fd, s) + LabelsUpTo(fd, s, g)
                  IN  targets[0][at] = fd.labF[g]

C7_Witness ==
    /\ pc[0] = "after_step"
    /\ \E g \in 1..Len(feed[0].invF) :
          /\ feed[0].invC[g] = 1
          /\ outputs[0][g] # BestClass(raw[0][feed[0].invF[g] + 1])

\* C8: no process of a distributed run fails in the directory loop.
C8_NoSetupFailure == \A w \in Ranks : err[w] # "FileExistsError"

\* C10: before_train, then before_epoch, once each before the first batch;
\* per batch after_step once, after its remapping and before its label
\* file; after_epoch once, after the last label file, and never after a
\* failure.
C10_HookOrder ==
    \A w \in Ranks :
        LET lg == log[w]
            nb == NumBatches(indices[w])
        IN  /\ lg # <<>> => At(lg, <<"before_train", 0>>) = {1}
            /\ Len(lg) >= 2 => At(lg, <<"before_epoch", 0>>) = {2}
            /\ \A b \in 1..nb :
                  /\ Cardinality(At(lg, <<"after_step", b>>)) <= 1
                  /\ \A a \in At(lg, <<"after_step", b>>) :
                        /\ a - 1 \in At(lg, <<"remap", b>>)
                        /\ a - 2 \in At(lg, <<"infer", b>>)
                  /\ \A x \in At(lg, <<"write", b>>) :
                        x - 1 \in At(lg, <<"after_step", b>>)
                  /\ pc[w] = "done" => Cardinality(At(lg, <<"after_step", b>>)) = 1
            /\ Cardinality(At(lg, <<"after_epoch", 0>>)) <= 1
            /\ pc[w] = "done" => At(lg, <<"after_epoch", 0>>) = {Len(lg)}
            /\ At(lg, <<"after_epoch", 0>>) # {} =>
                  /\ err[w] = ""
                  /\ pc[w] = "done"
                  /\ \A b \in 1..nb : At(lg, <<"write", b>>) # {}
                  /\ nb > 0 => Len(lg) - 1 \in At(lg, <<"write", nb>>)
            /\ err[w] # "" => At(lg, <<"after_epoch", 0>>) = {}

C10_Witness ==
    \E w \in Ranks :
        /\ pc[w] = "done"
        /\ NumBatches(indices[w]) = 3
        /\ Len(log[w]) = 15

====
